---- MODULE Spec2Model ----
(***************************************************************************)
(* Model of the ConsensusWeaverAgent core:                                 *)
(*   - ToolManager / RetryHandler (src/infrastructure/tools): the batch    *)
(*     dispatch of external providers with timeout and retry;              *)
(*   - SqliteUnitOfWork / TransactionManager / repositories / validator    *)
(*     (src/infrastructure/data): the transactional persistence layer.     *)
(* Each subsystem has its own variables, initial predicate and next-state  *)
(* relation.  SpecTools is a run_multiple_tools batch, SpecSingle one       *)
(* run_tool call on its own, SpecStore the unit-of-work scopes on one      *)
(* connection.                                                             *)
(***************************************************************************)
EXTENDS Integers, Sequences, FiniteSets, TLC

(***************************************************************************)
(* Bounds of the model                                                     *)
(***************************************************************************)
MaxRetriesBound == 3      \* max_retries ranges over 0..MaxRetriesBound for a single run_tool call
MaxBatchRetries == 2      \* max_retries ranges over 0..MaxBatchRetries for a batch
MaxParallelBound == 2     \* config.app.max_parallel_tools ranges over 1..MaxParallelBound
MaxRequested == 3         \* longest tool_names list passed to run_multiple_tools
MaxWrites == 3            \* rows inserted over a run of the persistence model
MaxScopes == 2            \* begin_transaction scopes opened over a run
MaxBatch == 2             \* longest entity list passed to add_batch / save_batch_for_session
MaxCalls == 4            \* executions recorded for one tool name
MaxResults == 2          \* longest tool_results list passed to an analyzer
MaxResponse == 3         \* pieces of a response of the generative model
MaxSessions == 3        \* sessions saved by a DataManager over a run
MaxDmRows == 2          \* rows saved in each result table of a DataManager over a run
MaxDataRetries == 2     \* largest max_retries of a data-layer RetryHandler
MaxSize == 2            \* largest max_size of a MemoryCache
MaxGets == 2            \* get calls counted by a MemoryCache between two clear calls
MaxQuestions == 3       \* longest list of questions passed to execute_batch_queries
MaxSessionWrites == 2     \* session writes (update, update_session, batch_update_sessions) over a run

VARIABLES config,           \* retry and app configuration the ToolManager was built with
    tool_names,       \* the argument of run_multiple_tools
    batchPc,          \* position of the run_multiple_tools call
    tasks,            \* the run_tool coroutines created by run_multiple_tools
    current_attempt,  \* RetryHandler.current_attempt (one handler per ToolManager)
    results,          \* the list run_multiple_tools returned
    metrics,          \* ToolSelector.metrics, per tool name
    conn,             \* the sqlite3 connection of the TransactionManager and its database
    uow,              \* the SqliteUnitOfWork of the current begin_transaction scope
    scope,            \* bookkeeping of the scopes: what was written in the current one
    flow,             \* one session: query execution, consensus analysis, completion
    analysis,         \* the last call of an analyzer function: its input and what it returned
    batch,            \* BatchQueryManager.execute_batch_queries: the questions and their coroutines
    cache,            \* a MemoryCache: its entries, its size limit and its counters
    data_retry,       \* a call of the data-layer RetryHandler
    dm                \* the database of a DataManager with several sessions

varsTools == <<config, tool_names, batchPc, tasks, current_attempt, results, metrics>>

varsStore == <<conn, uow, scope>>

varsExt == <<flow, analysis>>

varsAux == <<batch, cache, data_retry, dm>>

vars == <<varsTools, varsStore, varsExt, varsAux>>

(***************************************************************************)
(* Helpers                                                                 *)
(***************************************************************************)
Min(a, b) == IF a < b THEN a ELSE b

SeqsUpTo(S, n) == UNION {[1..k -> S] : k \in 0..n}

(***************************************************************************)
(* ToolManager                                                             *)
(***************************************************************************)
\* Every name a caller may pass; "x" is a tool that is not enabled.
AllNames == {"a", "x"}

\* ToolManager.__init__: the enabled tools, sorted by priority.
enabled_tools == <<"a">>

EnabledNames == {enabled_tools[i] : i \in 1..Len(enabled_tools)}

\* What one child-process invocation can do:
\*   ok       exit code 0, non-empty standard output
\*   empty    exit code 0, empty standard output
\*   nonzero  non-zero exit code
\*   timeout  asyncio.TimeoutError from wait_for
\*   error    any other exception (the process could not be started, ...)
Outcomes == {"ok", "empty", "nonzero", "timeout", "error"}

NoResult == [tool_name |-> "", success |-> FALSE, answer |-> "", error_message |-> ""]

ToolResult(name, success, answer, error) ==
    [tool_name |-> name, success |-> success, answer |-> answer, error_message |-> error]

\* _execute_tool_internal raises on these outcomes
Raises(outcome) == outcome \in {"timeout", "error"}

\* _execute_tool_internal: the ToolResult it returns when it does not raise
ExecuteToolInternal(name, outcome) ==
    IF outcome = "nonzero"
    THEN ToolResult(name, FALSE, "", "returncode")
    ELSE ToolResult(name, TRUE, IF outcome = "ok" THEN "stdout" ELSE "", "")

RECURSIVE GCD(_, _)
GCD(a, b) == IF b = 0 THEN a ELSE GCD(b, a % b)

\* the float a / b, for b > 0, as the fraction in lowest terms: two divisions
\* give the same float exactly when the fractions are equal
Divide(a, b) == [num |-> a \div GCD(a, b), den |-> b \div GCD(a, b)]

\* ToolSelector.metrics of a selector that loaded no metrics file: an empty dict
NoMetrics == [n \in {} |-> 0]

\* the dataclass ToolPerformanceMetrics with its defaults (success_rate = 0.0)
ToolPerformanceMetrics ==
    [total_calls |-> 0, successful_calls |-> 0, failed_calls |-> 0,
     success_rate |-> [num |-> 0, den |-> 1]]

\* (variant of RecordToolExecution: success_rate is only recomputed for a
\* successful execution)
RecordToolExecutionStaleRate(m, name, success) ==
    LET old == IF name \in DOMAIN m THEN m[name] ELSE ToolPerformanceMetrics
        total == old.total_calls + 1
        succ == old.successful_calls + (IF success THEN 1 ELSE 0)
        new == [total_calls |-> total, successful_calls |-> succ,
                failed_calls |-> old.failed_calls + (IF success THEN 0 ELSE 1),
                success_rate |-> IF success THEN Divide(succ, total) ELSE old.success_rate]
    IN [n \in DOMAIN m \cup {name} |-> IF n = name THEN new ELSE m[n]]

\* ToolSelector.record_tool_execution: the record is created when the name has
\* none, the counters are incremented, success_rate is recomputed
RecordToolExecution(m, name, success) ==
    LET old == IF name \in DOMAIN m THEN m[name] ELSE ToolPerformanceMetrics
        total == old.total_calls + 1
        succ == old.successful_calls + (IF success THEN 1 ELSE 0)
        new == [total_calls |-> total, successful_calls |-> succ,
                failed_calls |-> old.failed_calls + (IF success THEN 0 ELSE 1),
                success_rate |-> Divide(succ, total)]
    IN [n \in DOMAIN m \cup {name} |-> IF n = name THEN new ELSE m[n]]

\* ToolSelector.reset_metrics: without a name (None or "") every record is
\* dropped, with a name the record of that name
ResetMetricsOf(m, name) ==
    IF name = "" THEN NoMetrics
    ELSE [n \in DOMAIN m \ {name} |-> m[n]]

\* (variant of TruncatedNames: every requested name gets a task)
AllRequestedNames(names, max_parallel) == names

\* run_multiple_tools: the names it creates tasks for
TruncatedNames(names, max_parallel) == SubSeq(names, 1, Min(max_parallel, Len(names)))

BatchNames ==
    LET names == IF tool_names = <<>> THEN enabled_tools ELSE tool_names
    IN  TruncatedNames(names, config.max_parallel_tools)

NewTask(name) ==
    [name |-> name, pc |-> "created", calls |-> 0, attempts |-> 0,
     last_error |-> "none", last_outcome |-> "none", retry_result |-> "none",
     asked |-> 0, continues |-> 0,
     result |-> NoResult]

\* asyncio.gather without return_exceptions: the first exception of a task is
\* raised to the awaiting caller at once; the list is returned when every task
\* has returned.
GatherAfter(newTasks) ==
    IF batchPc # "gathering" THEN batchPc
    ELSE IF \E i \in DOMAIN newTasks : newTasks[i].pc = "raised" THEN "raised"
    ELSE IF \A i \in DOMAIN newTasks : newTasks[i].pc = "done" THEN "returned"
    ELSE "gathering"

GatherResults(newTasks) ==
    IF GatherAfter(newTasks) = "returned" /\ batchPc = "gathering"
    THEN [i \in DOMAIN newTasks |-> newTasks[i].result]
    ELSE results

(***************************************************************************)
(* The sqlite3 connection (Python sqlite3, default isolation level)        *)
(***************************************************************************)
\* The database as one connection sees it: the rows of the tables and the
\* AUTOINCREMENT counters (sqlite_sequence), which roll back with the rows.
\* Session 1 was stored when the question was asked.
EmptyDb ==
    [sessions |-> {1}, completed |-> {}, tool_results |-> {}, analysis_results |-> {},
     seq |-> [tool_results |-> 0, analysis_results |-> 0]]

\* TransactionManager._get_connection: tables created and committed
NewConnection == [work |-> EmptyDb, durable |-> EmptyDb, in_txn |-> FALSE]

\* pc: "none", "active", "exited", "begin_failed"; exc: an exception left the
\* block of the scope; propagated: an exception reached the caller of the scope
NoUow == [pc |-> "none", committed |-> FALSE, rolled_back |-> FALSE,
          exc |-> FALSE, propagated |-> FALSE]

\* inserted: the rows inserted in the current scope (number of the write, table); scopes, writes: how many
\* scopes were opened and rows inserted so far; last: how the last repository
\* call ended ("ok", "raised" before any row, "raised_after_rows"), "none"
\* after any other step
NoScope == [inserted |-> {}, scopes |-> 0, writes |-> 0, last |-> "none"]

CallEnded(raised, rows) ==
    IF ~raised THEN "ok" ELSE IF rows = 0 THEN "raised" ELSE "raised_after_rows"

InitConnection ==
    /\ conn = NewConnection
    /\ uow = NoUow
    /\ scope = NoScope

\* an INSERT or UPDATE statement ran: sqlite3 opens a transaction first when
\* none is open
ConnWrite(c, db) == [c EXCEPT !.work = db, !.in_txn = TRUE]

\* Connection.commit()
ConnCommit(c) == [work |-> c.work, durable |-> c.work, in_txn |-> FALSE]

\* Connection.rollback()
ConnRollback(c) == [work |-> c.durable, durable |-> c.durable, in_txn |-> FALSE]

(***************************************************************************)
(* DataValidator                                                           *)
(***************************************************************************)
\* (variant of ValidateToolResult: the two checks on answer and error_message
\* are missing)
ValidateToolResultLoose(e) ==
    /\ e.tool_name # ""
    /\ e.session_id > 0
    /\ e.execution_time >= 0

\* validate_tool_result: TRUE when it returns, FALSE when it raises ValueError
ValidateToolResult(e) ==
    /\ e.tool_name # ""
    /\ e.session_id > 0
    /\ e.execution_time >= 0
    /\ ~(e.success /\ e.answer = "")
    /\ ~(~e.success /\ e.error_message = "")

\* validate_analysis_result
ValidateAnalysisResult(e) ==
    /\ e.session_id > 0
    /\ e.similarity_matrix # ""
    /\ e.comprehensive_summary # ""
    /\ e.final_conclusion # ""

\* The tool result entities a caller passes: two valid ones, and one entity
\* for each way of failing validation or the foreign key on session_id.
ToolResultEntity(sid, name, success, answer, error, time) ==
    [session_id |-> sid, tool_name |-> name, success |-> success, answer |-> answer,
     error_message |-> error, execution_time |-> time]

ToolResultEntities ==
    { ToolResultEntity(1, "a", TRUE, "ans", "", 0),
      ToolResultEntity(1, "a", FALSE, "", "err", 0),
      ToolResultEntity(1, "a", TRUE, "", "", 0),
      ToolResultEntity(1, "a", FALSE, "", "", 0),
      ToolResultEntity(0, "a", TRUE, "ans", "", 0),
      ToolResultEntity(2, "a", TRUE, "ans", "", 0),
      ToolResultEntity(1, "", TRUE, "ans", "", 0),
      ToolResultEntity(1, "a", TRUE, "ans", "", -1) }

\* the entities of a batch: those that differ in success, answer and error only
BatchEntities ==
    {e \in ToolResultEntities :
        e.session_id = 1 /\ e.tool_name = "a" /\ e.execution_time = 0}

AnalysisEntities ==
    { [session_id |-> 1, similarity_matrix |-> "m", comprehensive_summary |-> "s",
       final_conclusion |-> "c"],
      [session_id |-> 1, similarity_matrix |-> "m", comprehensive_summary |-> "",
       final_conclusion |-> "c"] }

(***************************************************************************)
(* Repositories                                                            *)
(***************************************************************************)
\* FOREIGN KEY (session_id) REFERENCES sessions (id), with foreign_keys = ON
ForeignKeyHolds(db, e) == e.session_id \in db.sessions

\* the row of one INSERT INTO tool_results; w is the number of the write
ToolResultRow(db, e, w) ==
    [id |-> db.seq.tool_results + 1, w |-> w,
     session_id |-> e.session_id, tool_name |-> e.tool_name, success |-> e.success,
     answer |-> e.answer, error_message |-> e.error_message,
     execution_time |-> e.execution_time]

InsertToolResult(db, e, w) ==
    [db EXCEPT !.tool_results = @ \cup {ToolResultRow(db, e, w)},
               !.seq.tool_results = @ + 1]

\* The loop of add_batch / save_batch_for_session (and add, for one entity):
\* validate, then INSERT, entity by entity; the first entity that fails
\* validation or the foreign key raises and ends the loop, the rows before it
\* stay in the transaction.  st = [c, w, ins, raised]: the connection, the number of
\* writes so far, the writes made, whether an exception was raised.
RECURSIVE InsertLoop(_, _, _)
InsertLoop(st, es, i) ==
    IF i > Len(es) THEN st
    ELSE IF ~ValidateToolResult(es[i]) THEN [st EXCEPT !.raised = TRUE]
    ELSE IF ~ForeignKeyHolds(st.c.work, es[i])
         THEN [st EXCEPT !.raised = TRUE, !.c.in_txn = TRUE]
    ELSE InsertLoop([c |-> ConnWrite(st.c, InsertToolResult(st.c.work, es[i], st.w + 1)),
                     w |-> st.w + 1, ins |-> st.ins \cup {st.w + 1}, raised |-> FALSE],
                    es, i + 1)

\* the effect of a repository call that inserted tool results
AfterInsert(st) ==
    /\ conn' = st.c
    /\ scope' = [scope EXCEPT !.inserted = @ \cup {[w |-> n, table |-> "tool_results"] : n \in st.ins},
                              !.writes = st.w,
                              !.last = CallEnded(st.raised, Cardinality(st.ins))]
    /\ UNCHANGED uow
    /\ UNCHANGED <<varsTools, varsExt, varsAux>>

Active == uow.pc = "active"

StartLoop == [c |-> conn, w |-> scope.writes, ins |-> {}, raised |-> FALSE]

\* SqliteToolResultRepository.add
ToolResultsAdd(e) ==
    /\ Active
    /\ scope.writes + 1 <= MaxWrites
    /\ AfterInsert(InsertLoop(StartLoop, <<e>>, 1))

\* SqliteToolResultRepository.add_batch
ToolResultsAddBatch(es) ==
    /\ Active
    /\ scope.writes + Len(es) <= MaxWrites
    /\ AfterInsert(InsertLoop(StartLoop, es, 1))

\* SqliteToolResultRepository.save_batch_for_session: session_id is set on each
\* entity before it is validated
SaveBatchForSession(sid, es) ==
    /\ Active
    /\ scope.writes + Len(es) <= MaxWrites
    /\ AfterInsert(InsertLoop(StartLoop, [i \in DOMAIN es |-> [es[i] EXCEPT !.session_id = sid]], 1))

\* SqliteToolResultRepository.update: validate, then UPDATE ... WHERE id = ?
ToolResultsUpdate(id, e) ==
    /\ Active
    /\ IF ~ValidateToolResult(e)
       THEN /\ conn' = conn
            /\ scope' = [scope EXCEPT !.last = "raised"]
       ELSE /\ conn' = ConnWrite(conn,
                [conn.work EXCEPT !.tool_results =
                    {IF r.id = id
                     THEN [r EXCEPT !.success = e.success, !.answer = e.answer,
                                    !.error_message = e.error_message,
                                    !.execution_time = e.execution_time]
                     ELSE r : r \in @}])
            /\ scope' = [scope EXCEPT !.last = "ok"]
    /\ UNCHANGED uow
    /\ UNCHANGED <<varsTools, varsExt, varsAux>>

\* the INSERT INTO analysis_results of SqliteAnalysisResultRepository.add
InsertAnalysisResult(db, e, w) ==
    [db EXCEPT !.analysis_results = @ \cup {[id |-> db.seq.analysis_results + 1,
                                             w |-> w, session_id |-> e.session_id]},
               !.seq.analysis_results = @ + 1]

\* SqliteAnalysisResultRepository.add
AnalysisResultsAdd(e) ==
    /\ Active
    /\ scope.writes + 1 <= MaxWrites
    /\ IF ~ValidateAnalysisResult(e)
       THEN /\ conn' = conn
            /\ scope' = [scope EXCEPT !.last = "raised"]
       ELSE IF ~ForeignKeyHolds(conn.work, e)
       THEN /\ conn' = [conn EXCEPT !.in_txn = TRUE]
            /\ scope' = [scope EXCEPT !.last = "raised"]
       ELSE /\ conn' = ConnWrite(conn, InsertAnalysisResult(conn.work, e, scope.writes + 1))
            /\ scope' = [scope EXCEPT !.inserted = @ \cup {[w |-> scope.writes + 1,
                                                          table |-> "analysis_results"]},
                                      !.writes = @ + 1,
                                      !.last = "ok"]
    /\ UNCHANGED uow
    /\ UNCHANGED <<varsTools, varsExt, varsAux>>

(***************************************************************************)
(* SqliteUnitOfWork and TransactionManager.begin_transaction               *)
(***************************************************************************)
\* SqliteAnalysisResultRepository.get_by_session_id, and the same SELECT of
\* DataManager.get_analysis_result: fetchone() on a SELECT without ORDER BY,
\* which sqlite answers with the row of the lowest rowid. "None" when the
\* session has no analysis result.
GetBySessionId(db, sid) ==
    LET rows == {r \in db.analysis_results : r.session_id = sid}
    IN  IF rows = {} THEN "None"
        ELSE CHOOSE r \in rows : \A q \in rows : r.id <= q.id

\* variant of UowCommit: commit does not look at the rolled-back flag
UowCommitUnguarded(u, c) ==
    [u |-> [u EXCEPT !.committed = TRUE], c |-> ConnCommit(c)]

\* SqliteUnitOfWork.commit, as a function of the unit of work and the connection
UowCommit(u, c) ==
    IF ~u.rolled_back
    THEN [u |-> [u EXCEPT !.committed = TRUE], c |-> ConnCommit(c)]
    ELSE [u |-> u, c |-> c]

\* SqliteUnitOfWork.rollback
UowRollback(u, c) ==
    IF ~u.committed
    THEN [u |-> [u EXCEPT !.rolled_back = TRUE], c |-> ConnRollback(c)]
    ELSE [u |-> u, c |-> c]

\* (variant of ExitWithException: __aexit__ ignores the exception)
ExitIgnoresException(exc) == FALSE

\* __aexit__: exc_type is not None
ExitWithException(exc) == exc

\* __aexit__ returns None, so the context manager does not swallow the exception
AExitSwallows == FALSE

\* begin_transaction: a new SqliteUnitOfWork on the manager's connection, and
\* __aenter__ executes BEGIN TRANSACTION; sqlite raises OperationalError when a
\* transaction is already open on the connection, and the scope is not entered.
BeginTransaction ==
    /\ uow.pc \in {"none", "exited"}
    /\ scope.scopes < MaxScopes
    /\ IF conn.in_txn
       THEN /\ uow' = [NoUow EXCEPT !.pc = "begin_failed", !.propagated = TRUE]
            /\ conn' = conn
       ELSE /\ uow' = [NoUow EXCEPT !.pc = "active"]
            /\ conn' = [conn EXCEPT !.in_txn = TRUE]
    /\ scope' = [scope EXCEPT !.inserted = {}, !.scopes = @ + 1,
                              !.last = "none"]
    /\ UNCHANGED <<varsTools, varsExt, varsAux>>

\* uow.commit() called by the code inside the scope
Commit ==
    /\ Active
    /\ uow' = UowCommit(uow, conn).u
    /\ conn' = UowCommit(uow, conn).c
    /\ scope' = [scope EXCEPT !.last = "none"]
    /\ UNCHANGED <<varsTools, varsExt, varsAux>>

\* uow.rollback() called by the code inside the scope
Rollback ==
    /\ Active
    /\ uow' = UowRollback(uow, conn).u
    /\ conn' = UowRollback(uow, conn).c
    /\ scope' = [scope EXCEPT !.last = "none"]
    /\ UNCHANGED <<varsTools, varsExt, varsAux>>

\* the scope ends: __aexit__, with the exception that leaves the block (exc)
\* or without one
ExitScope(exc) ==
    /\ Active
    /\ LET r == IF ExitWithException(exc) THEN UowRollback(uow, conn)
                ELSE IF ~uow.committed /\ ~uow.rolled_back THEN UowCommit(uow, conn)
                ELSE [u |-> uow, c |-> conn]
       IN /\ uow' = [r.u EXCEPT !.pc = "exited", !.exc = exc,
                                !.propagated = exc /\ ~AExitSwallows]
          /\ conn' = r.c
    /\ scope' = [scope EXCEPT !.last = "none"]
    /\ UNCHANGED <<varsTools, varsExt, varsAux>>

\* RetryConfig and AppConfig as the default configuration file sets them
DefaultConfig ==
    [enabled |-> TRUE, auto_retry |-> TRUE, max_retries |-> 3,
     retry_on_timeout |-> TRUE, retry_on_error |-> TRUE, max_parallel_tools |-> 5]

\* The retry configurations: with enabled = FALSE no other field of the retry
\* configuration is read, so they stay at one value.
Configs(maxRetries, maxParallel) ==
    {c \in [enabled : BOOLEAN, auto_retry : BOOLEAN,
            max_retries : 0..maxRetries,
            retry_on_timeout : BOOLEAN, retry_on_error : BOOLEAN,
            max_parallel_tools : 1..maxParallel] :
        ~c.enabled => /\ c.auto_retry /\ c.retry_on_timeout /\ c.retry_on_error
                      /\ c.max_retries = 0}

\* no session is being processed
NoFlow == [pc |-> "idle", results |-> <<>>, writes |-> 0]

\* no analyzer function was called
NoAnalysis == [pc |-> "idle"]

InitIdle == flow = NoFlow /\ analysis = NoAnalysis

\* the parts of the program that take no part in a specification
NotUsed == [pc |-> "idle"]

InitAux == batch = NotUsed /\ cache = NotUsed /\ data_retry = NotUsed /\ dm = NotUsed

InitHandler ==
    /\ batchPc = "idle"
    /\ tasks = <<>>
    /\ current_attempt = 0
    /\ results = <<>>
    /\ metrics = NoMetrics

\* the persistence layer on its own: the ToolManager stays idle
InitStore ==
    /\ InitAux
    /\ InitIdle
    /\ InitConnection
    /\ config = DefaultConfig
    /\ tool_names = <<>>
    /\ InitHandler

NextStore ==
    \/ BeginTransaction
    \/ \E e \in ToolResultEntities : ToolResultsAdd(e)
    \/ \E es \in SeqsUpTo(BatchEntities, MaxBatch) : ToolResultsAddBatch(es)
    \/ \E sid \in 0..2, es \in SeqsUpTo(BatchEntities, MaxBatch) : SaveBatchForSession(sid, es)
    \/ \E id \in 1..MaxWrites, e \in ToolResultEntities : ToolResultsUpdate(id, e)
    \/ \E e \in AnalysisEntities : AnalysisResultsAdd(e)
    \/ Commit
    \/ Rollback
    \/ \E exc \in BOOLEAN : ExitScope(exc)

SpecStore == InitStore /\ [][NextStore]_vars

(***************************************************************************)
(* ConsensusAnalyzer and ConsensusAnalyzerV2                               *)
(***************************************************************************)
\* The answer of a tool as the analyzers see it: no word, or one word that is
\* not a stop word.
Answers == {"", "alpha", "beta"}

\* the dictionaries of the tool_results argument
ResultDicts == [tool_name : AllNames, success : BOOLEAN, answer : Answers]

\* variant of SuccessfulResults: the failed results are not filtered out
UnfilteredResults(rs) == rs

\* `successful_results = [result for result in tool_results if result["success"]]`
SuccessfulResults(rs) == SelectSeq(rs, LAMBDA r : r.success)

\* TfidfVectorizer.fit_transform raises ValueError ("empty vocabulary") when no
\* text has a word left
EmptyVocabulary(rs) == \A i \in DOMAIN rs : rs[i].answer = ""

\* cosine_similarity of the TF-IDF rows of two one-word texts: 1 for the same
\* word and 0 otherwise; the row of a text without words is the zero vector
Similarity(a, b) == IF a # "" /\ a = b THEN 1 ELSE 0

\* ConsensusAnalyzer._calculate_similarity_matrix, when it does not raise
CalculateSimilarityMatrix(rs) ==
    [i \in DOMAIN rs |-> [j \in DOMAIN rs |-> Similarity(rs[i].answer, rs[j].answer)]]

\* np.ones((n, n))
Ones(n) == [i \in 1..n |-> [j \in 1..n |-> 1]]

\* ConsensusAnalyzerV2._calculate_similarity_matrix: ones when there is no
\* vectorizer or when the vectorizer raises
CalculateSimilarityMatrixV2(rs, vectorizer) ==
    IF ~vectorizer \/ EmptyVocabulary(rs) THEN Ones(Len(rs))
    ELSE CalculateSimilarityMatrix(rs)

RECURSIVE SumSeq(_)
SumSeq(s) == IF s = <<>> THEN 0 ELSE Head(s) + SumSeq(Tail(s))

ScoreScale == 100

ScoreDigits == 2

\* round(float(mean(row) * 100), 2), in units of 10^-2
RoundedScore(row) ==
    (2 * ScoreScale * (10 ^ ScoreDigits) * SumSeq(row) + Len(row)) \div (2 * Len(row))

\* the last result of a tool name: a later assignment to the same key of the
\* dict replaces the earlier one
LastIndexOf(rs, name) ==
    CHOOSE i \in DOMAIN rs :
        rs[i].tool_name = name /\ \A j \in DOMAIN rs : rs[j].tool_name = name => j <= i

\* ConsensusAnalyzer._calculate_consensus_scores: consensus_scores[tool_name]
ConsensusScores(rs, m) ==
    [n \in {rs[i].tool_name : i \in DOMAIN rs} |-> RoundedScore(m[LastIndexOf(rs, n)])]

\* ConsensusAnalyzerV2._calculate_consensus_scores: float(np.mean(row))
ConsensusScoresV2(rs, m) ==
    [n \in {rs[i].tool_name : i \in DOMAIN rs} |->
        Divide(SumSeq(m[LastIndexOf(rs, n)]), Len(rs))]

(***************************************************************************)
(* The response of the generative model and its parsing                    *)
(***************************************************************************)
\* A response text as a sequence of pieces: the opening of a json code fence,
\* a bare code fence (three backquotes), white space, a JSON array, a JSON
\* object, words that are not JSON.
Tokens == {"fence_json", "fence", " ", "[]", "{}", "text"}

\* generate_response either raises or returns a text
LlmOutcomes(n) ==
    {o \in [raises : BOOLEAN, text : SeqsUpTo(Tokens, n)] : o.raises => o.text = <<>>}

\* the responses used when the whole analysis runs
TypicalTexts ==
    {<<>>, <<"text">>, <<"[]">>, <<"{}">>, <<"fence_json", "[]", "fence">>}

TypicalOutcomes ==
    [raises : {FALSE}, text : TypicalTexts] \cup {[raises |-> TRUE, text |-> <<>>]}

RECURSIVE LStrip(_)
LStrip(s) == IF s # <<>> /\ Head(s) = " " THEN LStrip(Tail(s)) ELSE s

RECURSIVE RStrip(_)
RStrip(s) == IF s # <<>> /\ s[Len(s)] = " " THEN RStrip(SubSeq(s, 1, Len(s) - 1)) ELSE s

\* str.strip()
Strip(s) == LStrip(RStrip(s))

\* the fence at the start is cut off (response[7:]), then the fence at the end
\* (response[:-3]), then the text is stripped
Unfence(s) ==
    LET a == IF s # <<>> /\ Head(s) = "fence_json" THEN Tail(s) ELSE s
        b == IF a # <<>> /\ a[Len(a)] = "fence" THEN SubSeq(a, 1, Len(a) - 1) ELSE a
    IN Strip(b)

\* json.loads: the type of the value it returns, or JSONDecodeError
JsonLoads(s) ==
    IF Strip(s) = <<"[]">> THEN "list"
    ELSE IF Strip(s) = <<"{}">> THEN "dict"
    ELSE "JSONDecodeError"

\* the value a function returns: its Python type, where it came from, and the
\* items when they were computed from the tool results
Returned(type, origin, items) == [type |-> type, origin |-> origin, items |-> items]

Words == Answers \ {""}

\* Counter(all_words)[w]
Freq(rs, w) == Cardinality({i \in DOMAIN rs : rs[i].answer = w})

FirstIndexOf(rs, w) ==
    CHOOSE i \in DOMAIN rs : rs[i].answer = w /\ \A j \in DOMAIN rs : rs[j].answer = w => i <= j

\* Counter.most_common: by count, equal counts in the order of first occurrence
RECURSIVE MostCommon(_, _)
MostCommon(rs, ws) ==
    IF ws = {} THEN <<>>
    ELSE LET w == CHOOSE w \in ws : \A v \in ws :
                      \/ Freq(rs, w) > Freq(rs, v)
                      \/ Freq(rs, w) = Freq(rs, v) /\ FirstIndexOf(rs, w) <= FirstIndexOf(rs, v)
         IN <<w>> \o MostCommon(rs, ws \ {w})

MostCommonCount == 10

\* _simple_key_point_extraction: the most frequent words, each with the tools
\* whose answer has it
SimpleKeyPointExtraction(rs) ==
    LET mc == MostCommon(rs, {w \in Words : Freq(rs, w) > 0})
        top == SubSeq(mc, 1, Min(Len(mc), MostCommonCount))
    IN [k \in DOMAIN top |->
          [content |-> top[k],
           sources |-> LET hits == SelectSeq(rs, LAMBDA r : r.answer = top[k])
                       IN [i \in DOMAIN hits |-> hits[i].tool_name]]]

\* ConsensusAnalyzer._extract_key_points
ExtractKeyPoints(rs, llm) ==
    LET fallback == Returned("list", "fallback", SimpleKeyPointExtraction(rs))
    IN IF llm.raises THEN fallback
       ELSE IF Strip(llm.text) = <<>> THEN fallback
       ELSE IF Unfence(llm.text) = <<>> THEN fallback
       ELSE IF JsonLoads(Unfence(llm.text)) = "JSONDecodeError" THEN fallback
       ELSE Returned(JsonLoads(Unfence(llm.text)), "json", <<>>)

\* ConsensusAnalyzer._identify_differences
IdentifyDifferences(rs, llm) ==
    LET empty == Returned("list", "fallback", <<>>)
    IN IF llm.raises THEN empty
       ELSE IF Strip(llm.text) = <<>> THEN empty
       ELSE IF Unfence(llm.text) = <<>> THEN empty
       ELSE IF JsonLoads(Unfence(llm.text)) = "JSONDecodeError" THEN empty
       ELSE Returned(JsonLoads(Unfence(llm.text)), "json", <<>>)

\* ConsensusAnalyzerV2._extract_key_points: one point per non-empty answer
ExtractKeyPointsV2(rs) ==
    LET hits == SelectSeq(rs, LAMBDA r : r.answer # "")
    IN Returned("list", "answers",
                [i \in DOMAIN hits |-> [source |-> hits[i].tool_name, point |-> hits[i].answer]])

\* the loops of ConsensusAnalyzerV2._identify_differences over the pairs i < j
RECURSIVE DifferentPairs(_, _, _)
DifferentPairs(rs, i, j) ==
    IF i >= Len(rs) THEN <<>>
    ELSE IF j > Len(rs) THEN DifferentPairs(rs, i + 1, i + 2)
    ELSE (IF rs[i].answer # "" /\ rs[j].answer # "" /\ rs[i].answer # rs[j].answer
          THEN <<[tools |-> <<rs[i].tool_name, rs[j].tool_name>>]>>
          ELSE <<>>) \o DifferentPairs(rs, i, j + 1)

\* ConsensusAnalyzerV2._identify_differences
IdentifyDifferencesV2(rs) == Returned("list", "answers", DifferentPairs(rs, 1, 2))

\* what analyze_consensus does: raise, or return a ConsensusAnalysisResult
AnalysisRaised(error) == [raised |-> TRUE, error |-> error]

ConsensusAnalysisResult(m, scores, kp, diff) ==
    [raised |-> FALSE, similarity_matrix |-> m, consensus_scores |-> scores,
     key_points |-> kp, differences |-> diff]

\* ConsensusAnalyzerV2._create_default_result
CreateDefaultResult ==
    ConsensusAnalysisResult(<<<<1>>>>, [n \in {} |-> 0],
                            Returned("list", "default", <<>>), Returned("list", "default", <<>>))

\* ConsensusAnalyzer.analyze_consensus up to the saving of the result
AnalyzeResults(rs, kp, diff) ==
    LET s == SuccessfulResults(rs)
        m == CalculateSimilarityMatrix(s)
    IN IF s = <<>> THEN AnalysisRaised("ValueError")
       ELSE IF EmptyVocabulary(s) THEN AnalysisRaised("ValueError")
       ELSE ConsensusAnalysisResult(m, ConsensusScores(s, m),
                                    ExtractKeyPoints(s, kp), IdentifyDifferences(s, diff))

\* ConsensusAnalyzerV2.analyze_consensus up to the saving of the result
AnalyzeResultsV2(rs, vectorizer) ==
    LET s == SuccessfulResults(rs)
        m == CalculateSimilarityMatrixV2(s, vectorizer)
    IN IF Len(s) < 2 THEN CreateDefaultResult
       ELSE ConsensusAnalysisResult(m, ConsensusScoresV2(s, m),
                                    ExtractKeyPointsV2(s), IdentifyDifferencesV2(s))

\* the AnalysisResult entity built from a computed analysis: the matrix has
\* rows, the summary and the conclusion are non-empty texts
AnalysisEntityOf(sid) ==
    [session_id |-> sid, similarity_matrix |-> "m", comprehensive_summary |-> "s",
     final_conclusion |-> "c"]

(***************************************************************************)
(* Session writes: SqliteSessionRepository, DataManager, BatchOperations   *)
(***************************************************************************)
\* UPDATE sessions SET completed = ? WHERE id = ?, on one view of the database
SetCompleted(db, sid, completed) ==
    IF sid \in db.sessions
    THEN [db EXCEPT !.completed = IF completed THEN @ \cup {sid} ELSE @ \ {sid}]
    ELSE db

\* the Session entities passed to SqliteSessionRepository.update
SessionEntities == [id : {1, 2}, original_question : {"", "q"}, completed : BOOLEAN]

\* validate_session: TRUE when it returns, FALSE when it raises ValueError
ValidateSession(e) == e.original_question # ""

\* The arguments of DataManager.update_session and the dictionaries of
\* batch_update_sessions, for the stored session: which of refined_question
\* and completed are given.
SessionUpdates == [id : {1}, refined_question : BOOLEAN, completed : {"unset", "true", "false"}]

\* `if update_fields:` / `if set_clauses:`: a statement is executed
HasFields(u) == u.refined_question \/ u.completed # "unset"

\* the UPDATE statement built from the given fields
ApplyUpdate(db, u) ==
    IF u.completed = "unset" THEN db ELSE SetCompleted(db, u.id, u.completed = "true")

\* DataManager writes through a connection of its own: its UPDATE waits for the
\* write lock and raises OperationalError when the TransactionManager's
\* connection holds it (pending writes), may or may not find it held when that
\* connection opened a transaction without pending writes.
LockOutcomes(c) ==
    IF c.work # c.durable THEN {TRUE} ELSE IF c.in_txn THEN BOOLEAN ELSE {FALSE}

\* DataManager.update_session on the database: UPDATE and commit
UpdateSession(c, u) ==
    [c EXCEPT !.work = ApplyUpdate(@, u), !.durable = ApplyUpdate(@, u)]

\* SqliteSessionRepository.update: validate, then UPDATE ... SET refined_question
\* = ?, completed = ? from the entity
SessionsUpdate(e) ==
    /\ Active
    /\ flow.writes < MaxSessionWrites
    /\ IF ~ValidateSession(e)
       THEN /\ conn' = conn
            /\ scope' = [scope EXCEPT !.last = "raised"]
       ELSE /\ conn' = ConnWrite(conn, SetCompleted(conn.work, e.id, e.completed))
            /\ scope' = [scope EXCEPT !.last = "ok"]
    /\ flow' = [flow EXCEPT !.writes = @ + 1]
    /\ UNCHANGED uow
    /\ UNCHANGED <<varsTools, analysis, varsAux>>

\* DataManager.update_session
DataManagerUpdateSession(u, locked) ==
    /\ flow.writes < MaxSessionWrites
    /\ locked \in LockOutcomes(conn)
    /\ conn' = IF HasFields(u) /\ ~locked THEN UpdateSession(conn, u) ELSE conn
    /\ flow' = [flow EXCEPT !.writes = @ + 1]
    /\ UNCHANGED <<uow, scope>>
    /\ UNCHANGED <<varsTools, analysis, varsAux>>

\* the loop of batch_update_sessions: one UPDATE per dictionary with a field
RECURSIVE BatchUpdate(_, _, _)
BatchUpdate(c, updates, i) ==
    IF i > Len(updates) THEN c
    ELSE BatchUpdate(IF HasFields(updates[i])
                     THEN ConnWrite(c, ApplyUpdate(c.work, updates[i]))
                     ELSE c,
                     updates, i + 1)

\* BatchOperations.batch_update_sessions, on the connection it was given; it
\* does not commit
BatchUpdateSessions(updates) ==
    /\ flow.writes < MaxSessionWrites
    /\ conn' = BatchUpdate(conn, updates, 1)
    /\ flow' = [flow EXCEPT !.writes = @ + 1]
    /\ UNCHANGED <<uow, scope>>
    /\ UNCHANGED <<varsTools, analysis, varsAux>>

(***************************************************************************)
(* One session: QueryExecutorV2, ConsensusAnalyzerV2, InteractionEngine    *)
(***************************************************************************)
\* _save_tool_results_with_transaction: a scope of its own with add_batch and
\* commit; BEGIN fails when a transaction is open, an exception in add_batch
\* rolls the scope back.  The result is [c, w, raised].
SaveToolResultsWithTransaction(c, es, w) ==
    IF c.in_txn THEN [c |-> c, w |-> w, raised |-> TRUE]
    ELSE LET st == InsertLoop([c |-> [c EXCEPT !.in_txn = TRUE], w |-> w,
                               ins |-> {}, raised |-> FALSE], es, 1)
         IN IF st.raised THEN [c |-> ConnRollback(st.c), w |-> st.w, raised |-> TRUE]
            ELSE [c |-> ConnCommit(st.c), w |-> st.w, raised |-> FALSE]

\* _save_analysis_result_with_transaction: a scope of its own with add and commit
SaveAnalysisResultWithTransaction(c, e, w) ==
    IF c.in_txn THEN [c |-> c, w |-> w, raised |-> TRUE]
    ELSE IF ~ValidateAnalysisResult(e) \/ ~ForeignKeyHolds(c.work, e)
    THEN [c |-> ConnRollback(c), w |-> w, raised |-> TRUE]
    ELSE [c |-> ConnCommit(ConnWrite(c, InsertAnalysisResult(c.work, e, w + 1))),
          w |-> w + 1, raised |-> FALSE]

\* `[result for result in tool_results if result.get("success", False)]`
SuccessfulCount(rs) == Cardinality({i \in DOMAIN rs : rs[i].success})

\* execute_queries: the tools ran (or an exception left the run: raises),
\* then the results are saved
ExecuteQueries(es, raises) ==
    /\ flow.pc = "start"
    /\ scope.writes + Len(es) <= MaxWrites
    /\ LET r == SaveToolResultsWithTransaction(conn, es, scope.writes)
       IN IF raises
          THEN /\ flow' = [flow EXCEPT !.pc = "failed"]
               /\ UNCHANGED <<conn, scope>>
          ELSE /\ conn' = r.c
               /\ scope' = [scope EXCEPT !.writes = r.w]
               /\ flow' = [flow EXCEPT !.pc = IF r.raised THEN "failed" ELSE "executed",
                                       !.results = es]
    /\ UNCHANGED uow
    /\ UNCHANGED <<varsTools, analysis, varsAux>>

\* ConsensusAnalyzerV2.analyze_consensus on the results of the session: with
\* fewer than two successful results the default result is returned and nothing
\* is saved; otherwise the analysis is computed, which does not raise, and saved
AnalyzeConsensusV2(vectorizer) ==
    /\ flow.pc = "executed"
    /\ scope.writes + 1 <= MaxWrites
    /\ LET r == AnalyzeResultsV2(flow.results, vectorizer)
           saves == SuccessfulCount(flow.results) >= 2
           sv == SaveAnalysisResultWithTransaction(conn, AnalysisEntityOf(1), scope.writes)
           res == IF saves /\ sv.raised THEN AnalysisRaised("OperationalError") ELSE r
       IN /\ analysis' = [pc |-> "done", op |-> "analyze_consensus_v2",
                          vectorizer |-> vectorizer, result |-> res]
          /\ conn' = IF saves THEN sv.c ELSE conn
          /\ scope' = IF saves THEN [scope EXCEPT !.writes = sv.w] ELSE scope
          /\ flow' = [flow EXCEPT !.pc = IF res.raised THEN "failed" ELSE "analyzed"]
    /\ UNCHANGED uow
    /\ UNCHANGED <<varsTools, varsAux>>

\* InteractionEngine.complete_interaction: data_manager.update_session(
\* session_id, completed=True)
CompleteInteraction(locked) ==
    /\ flow.pc = "analyzed"
    /\ locked \in LockOutcomes(conn)
    /\ conn' = IF locked THEN conn
               ELSE UpdateSession(conn, [id |-> 1, refined_question |-> FALSE,
                                         completed |-> "true"])
    /\ flow' = [flow EXCEPT !.pc = IF locked THEN "failed" ELSE "completed"]
    /\ UNCHANGED <<uow, scope>>
    /\ UNCHANGED <<varsTools, analysis, varsAux>>

\* session 1 was stored; its question is about to be executed
InitSession ==
    /\ InitAux
    /\ InitConnection
    /\ config = DefaultConfig
    /\ tool_names = <<>>
    /\ InitHandler
    /\ flow = [NoFlow EXCEPT !.pc = "start"]
    /\ analysis = NoAnalysis

NextSession ==
    \/ BeginTransaction
    \/ Commit
    \/ Rollback
    \/ \E exc \in BOOLEAN : ExitScope(exc)
    \/ \E e \in SessionEntities : SessionsUpdate(e)
    \/ \E u \in SessionUpdates, locked \in BOOLEAN : DataManagerUpdateSession(u, locked)
    \/ \E us \in SeqsUpTo({u \in SessionUpdates : ~u.refined_question}, MaxBatch) :
           BatchUpdateSessions(us)
    \/ \E es \in SeqsUpTo(BatchEntities, MaxBatch), raises \in BOOLEAN : ExecuteQueries(es, raises)
    \/ \E vectorizer \in BOOLEAN : AnalyzeConsensusV2(vectorizer)
    \/ \E locked \in BOOLEAN : CompleteInteraction(locked)

SpecSession == InitSession /\ [][NextSession]_vars

(***************************************************************************)
(* The analyzers on their own                                              *)
(***************************************************************************)
\* DataManager.save_analysis_result on the database: INSERT and commit
SaveAnalysisResult(c, sid, w) ==
    [c EXCEPT !.work = InsertAnalysisResult(@, [session_id |-> sid], w),
              !.durable = InsertAnalysisResult(@, [session_id |-> sid], w)]

\* ConsensusAnalyzer.analyze_consensus on the results of the session; kp and
\* diff are what the generative model does for the two extraction prompts
AnalyzeConsensus(kp, diff, locked) ==
    /\ flow.pc = "executed"
    /\ scope.writes + 1 <= MaxWrites
    /\ locked \in LockOutcomes(conn)
    /\ LET r == AnalyzeResults(flow.results, kp, diff)
           res == IF ~r.raised /\ locked THEN AnalysisRaised("OperationalError") ELSE r
       IN /\ analysis' = [pc |-> "done", op |-> "analyze_consensus", kp |-> kp,
                          diff |-> diff, result |-> res]
          /\ conn' = IF res.raised THEN conn
                     ELSE SaveAnalysisResult(conn, 1, scope.writes + 1)
          /\ scope' = IF res.raised THEN scope ELSE [scope EXCEPT !.writes = @ + 1]
          /\ flow' = [flow EXCEPT !.pc = IF res.raised THEN "failed" ELSE "analyzed"]
    /\ UNCHANGED uow
    /\ UNCHANGED <<varsTools, varsAux>>

\* _extract_key_points called with the results of the session
ExtractKeyPointsCall(llm) ==
    /\ flow.pc = "executed"
    /\ analysis.pc = "idle"
    /\ analysis' = [pc |-> "done", op |-> "_extract_key_points", llm |-> llm,
                    result |-> ExtractKeyPoints(flow.results, llm)]
    /\ UNCHANGED <<flow, varsStore, varsTools, varsAux>>

\* _identify_differences called with the results of the session
IdentifyDifferencesCall(llm) ==
    /\ flow.pc = "executed"
    /\ analysis.pc = "idle"
    /\ analysis' = [pc |-> "done", op |-> "_identify_differences", llm |-> llm,
                    result |-> IdentifyDifferences(flow.results, llm)]
    /\ UNCHANGED <<flow, varsStore, varsTools, varsAux>>

\* the tool results of a session, some of them failed, about to be analysed
InitAnalyzer ==
    /\ InitAux
    /\ InitConnection
    /\ config = DefaultConfig
    /\ tool_names = <<>>
    /\ InitHandler
    /\ analysis = NoAnalysis
    /\ flow \in [pc : {"executed"}, results : SeqsUpTo(ResultDicts, MaxResults), writes : {0}]

NextAnalyzer ==
    \/ \E kp \in TypicalOutcomes, diff \in TypicalOutcomes, locked \in BOOLEAN :
          AnalyzeConsensus(kp, diff, locked)
    \/ \E vectorizer \in BOOLEAN : AnalyzeConsensusV2(vectorizer)

SpecAnalyzer == InitAnalyzer /\ [][NextAnalyzer]_vars

\* the successful results of one tool, as analyze_consensus passes them on
InitExtractor ==
    /\ InitAux
    /\ InitConnection
    /\ config = DefaultConfig
    /\ tool_names = <<>>
    /\ InitHandler
    /\ analysis = NoAnalysis
    /\ flow \in [pc : {"executed"},
                 results : SeqsUpTo({r \in ResultDicts : r.success /\ r.tool_name = "a"},
                                    MaxResults),
                 writes : {0}]

NextExtractor ==
    \/ \E llm \in LlmOutcomes(MaxResponse) : ExtractKeyPointsCall(llm)
    \/ \E llm \in LlmOutcomes(MaxResponse) : IdentifyDifferencesCall(llm)

SpecExtractor == InitExtractor /\ [][NextExtractor]_vars

(***************************************************************************)
(* BatchQueryManager.execute_batch_queries                                 *)
(***************************************************************************)
\* the texts of the questions of a batch
QuestionTexts == {"q1", "q2"}

\* What executing one question does: save_session raises, execute_queries
\* raises an Exception with a message, or execute_queries returns (its
\* QueryExecutionResult always has completed = True).
QuestionOutcomes ==
    {[kind |-> "completed", at |-> "execute_queries", message |-> "None"]}
        \cup [kind : {"raised"}, at : {"save_session", "execute_queries"},
              message : {"e1", "e2"}]

\* variant of BatchQueryResultOf: the except branch leaves success as the
\* executor would have set it
BatchQueryResultKeepsSuccess(question, session_id, outcome) ==
    [question |-> question, session_id |-> session_id, success |-> TRUE,
     error_message |-> IF outcome.kind = "raised" THEN outcome.message ELSE "None"]

\* the BatchQueryResult execute_single_question returns: success is set after
\* execute_queries returned, error_message in the except branch
BatchQueryResultOf(question, session_id, outcome) ==
    [question |-> question, session_id |-> session_id,
     success |-> outcome.kind = "completed",
     error_message |-> IF outcome.kind = "raised" THEN outcome.message ELSE "None"]

\* the coroutine of a question before gather has run it
NewQuestionTask(question) ==
    [pc |-> "created", question |-> question, session_id |-> "None",
     outcome |-> "None", result |-> "None"]

\* execute_single_question from the semaphore to its first suspension: the
\* semaphore is taken by the waiting coroutines in the order gather created
\* them; save_session runs, and when it raises the coroutine ends at once
StartQuestion(i, saved) ==
    /\ batch.pc = "gathering"
    /\ i \in 1..Len(batch.tasks)
    /\ batch.tasks[i].pc = "created"
    /\ \A j \in 1..(i - 1) : batch.tasks[j].pc # "created"
    /\ batch.semaphore > 0
    /\ IF saved.kind = "raised"
       THEN batch' = [batch EXCEPT
                !.tasks[i] = [@ EXCEPT !.pc = "done", !.outcome = saved,
                                !.result = BatchQueryResultOf(batch.tasks[i].question, "None", saved)]]
       ELSE batch' = [batch EXCEPT
                !.semaphore = @ - 1,
                !.next_session = @ + 1,
                !.tasks[i] = [@ EXCEPT !.pc = "running", !.session_id = batch.next_session]]
    /\ UNCHANGED <<data_retry, cache, dm>>
    /\ UNCHANGED <<varsTools, varsStore, varsExt>>

\* execute_queries of a running question returns or raises; the coroutine
\* builds its BatchQueryResult and leaves the semaphore
FinishQuestion(i, outcome) ==
    /\ batch.pc = "gathering"
    /\ i \in 1..Len(batch.tasks)
    /\ batch.tasks[i].pc = "running"
    /\ outcome.at = "execute_queries"
    /\ batch' = [batch EXCEPT
            !.semaphore = @ + 1,
            !.tasks[i] = [@ EXCEPT !.pc = "done", !.outcome = outcome,
                            !.result = BatchQueryResultOf(batch.tasks[i].question,
                                                          batch.tasks[i].session_id, outcome)]]
    /\ UNCHANGED <<data_retry, cache, dm>>
    /\ UNCHANGED <<varsTools, varsStore, varsExt>>

\* asyncio.gather returns the results of the coroutines in the order of its
\* arguments once all of them are done
GatherQuestions ==
    /\ batch.pc = "gathering"
    /\ \A i \in 1..Len(batch.tasks) : batch.tasks[i].pc = "done"
    /\ batch' = [batch EXCEPT !.pc = "returned",
                              !.results = [i \in 1..Len(batch.tasks) |-> batch.tasks[i].result]]
    /\ UNCHANGED <<data_retry, cache, dm>>
    /\ UNCHANGED <<varsTools, varsStore, varsExt>>

\* the rest of the program at rest
InitQuiet ==
    /\ InitIdle
    /\ InitConnection
    /\ config = DefaultConfig
    /\ tool_names = <<>>
    /\ InitHandler

\* execute_batch_queries was called: the semaphore exists and gather has
\* created one coroutine per question
InitBatch ==
    /\ InitQuiet
    /\ cache = NotUsed /\ data_retry = NotUsed /\ dm = NotUsed
    /\ \E questions \in SeqsUpTo(QuestionTexts, MaxQuestions),
          max_concurrent \in 1..MaxParallelBound :
          batch = [pc |-> "gathering", questions |-> questions,
                   semaphore |-> max_concurrent, next_session |-> 1,
                   tasks |-> [i \in 1..Len(questions) |-> NewQuestionTask(questions[i])],
                   results |-> <<>>]

NextBatch ==
    \/ \E i \in 1..MaxQuestions, saved \in QuestionOutcomes : StartQuestion(i, saved)
    \/ \E i \in 1..MaxQuestions, outcome \in QuestionOutcomes : FinishQuestion(i, outcome)
    \/ GatherQuestions

SpecBatch == InitBatch /\ [][NextBatch]_vars

\* a ToolSelector that found no metrics file
(***************************************************************************)
(* MemoryCache                                                             *)
(***************************************************************************)
\* keys and patterns are strings, written as sequences of characters
CacheKeys == {<<"a">>, <<"b">>, <<"a", "b">>}

CachePatterns == {<<>>, <<"a">>, <<"b">>}

\* the values a caller stores: a string, or a dict
CacheValues == {[type |-> "str", data |-> <<"v">>], [type |-> "dict", data |-> <<"d">>]}

\* Python's None as a value
NoneValue == [type |-> "None", data |-> <<>>]

\* json.dumps of a dict or a list: a string
JsonDumps(value) == [type |-> "str", data |-> <<"json">> \o value.data]

\* pattern in k
PatternIn(pattern, k) ==
    \E i \in 0..(Len(k) - Len(pattern)) : SubSeq(k, i + 1, i + Len(pattern)) = pattern

\* the position of a key in the dict (insertion order), 0 when it is absent
KeyIndex(entries, k) ==
    IF \E i \in 1..Len(entries) : entries[i].key = k
    THEN CHOOSE i \in 1..Len(entries) : entries[i].key = k
    ELSE 0

\* del self.cache[key] for the keys at the positions in gone
DeleteAt(entries, gone) ==
    LET F[i \in 0..Len(entries)] ==
            IF i = 0 THEN <<>>
            ELSE IF i \in gone THEN F[i - 1] ELSE Append(F[i - 1], entries[i])
    IN  F[Len(entries)]

\* variant of EnforceSizeLimit: one entry too few is removed
EnforceSizeLimitOffByOne(entries, max_size) ==
    IF Len(entries) <= max_size + 1 THEN entries
    ELSE DeleteAt(entries, {1})

\* _enforce_size_limit: sorted() by hit_count is stable, so entries with equal
\* hit counts keep their insertion order; the first len - max_size are deleted
EnforceSizeLimit(entries, max_size) ==
    IF Len(entries) <= max_size THEN entries
    ELSE LET n == Len(entries) - max_size
             before(i) == {j \in 1..Len(entries) :
                              \/ entries[j].hit_count < entries[i].hit_count
                              \/ /\ entries[j].hit_count = entries[i].hit_count
                                 /\ j < i}
         IN  DeleteAt(entries, {i \in 1..Len(entries) : Cardinality(before(i)) < n})

\* _is_expired: the entry has an expiry time and it has passed
IsExpired(entry, passed) == entry.ttl /\ passed

\* what get returns
GetValue(c, k, passed) ==
    LET i == KeyIndex(c.entries, k)
    IN  IF i = 0 THEN NoneValue
        ELSE IF IsExpired(c.entries[i], passed) THEN NoneValue
        ELSE c.entries[i].value

\* the call made last on the cache, with its key or pattern
Called(op, k) == [op |-> op, key |-> k, value |-> NoneValue, ttl |-> FALSE]

\* MemoryCache.get
CacheGet(k, passed) ==
    /\ cache.hit_count + cache.miss_count < MaxGets
    /\ LET i == KeyIndex(cache.entries, k)
       IN  IF i = 0
           THEN cache' = [cache EXCEPT !.miss_count = @ + 1, !.last = Called("get", k)]
           ELSE IF IsExpired(cache.entries[i], passed)
           THEN cache' = [cache EXCEPT !.entries = DeleteAt(@, {i}),
                                       !.miss_count = @ + 1,
                                       !.last = Called("get", k)]
           ELSE cache' = [cache EXCEPT !.entries[i].hit_count = @ + 1,
                                       !.hit_count = @ + 1,
                                       !.last = Called("get", k)]
    /\ UNCHANGED <<batch, data_retry, dm>>
    /\ UNCHANGED <<varsTools, varsStore, varsExt>>

\* MemoryCache.set: self.cache[key] = entry keeps the position of a key that
\* is already there
CacheSet(k, v, ttl) ==
    /\ LET entry == [key |-> k,
                     value |-> IF v.type \in {"dict", "list"} THEN JsonDumps(v) ELSE v,
                     ttl |-> ttl, hit_count |-> 0]
           i == KeyIndex(cache.entries, k)
           stored == IF i = 0 THEN Append(cache.entries, entry)
                     ELSE [cache.entries EXCEPT ![i] = entry]
       IN  cache' = [cache EXCEPT !.entries = EnforceSizeLimit(stored, cache.max_size),
                                  !.last = [op |-> "set", key |-> k, value |-> v,
                                            ttl |-> ttl]]
    /\ UNCHANGED <<batch, data_retry, dm>>
    /\ UNCHANGED <<varsTools, varsStore, varsExt>>

\* MemoryCache.delete
CacheDelete(k) ==
    /\ cache' = [cache EXCEPT !.entries = DeleteAt(@, {KeyIndex(cache.entries, k)}),
                              !.last = Called("delete", k)]
    /\ UNCHANGED <<batch, data_retry, dm>>
    /\ UNCHANGED <<varsTools, varsStore, varsExt>>

\* MemoryCache.clear
CacheClear ==
    /\ cache' = [cache EXCEPT !.entries = <<>>, !.hit_count = 0, !.miss_count = 0,
                              !.last = Called("clear", <<>>)]
    /\ UNCHANGED <<batch, data_retry, dm>>
    /\ UNCHANGED <<varsTools, varsStore, varsExt>>

\* MemoryCache.invalidate_pattern
InvalidatePattern(pattern) ==
    /\ cache' = [cache EXCEPT !.entries =
            DeleteAt(@, {i \in 1..Len(cache.entries) :
                            PatternIn(pattern, cache.entries[i].key)}),
            !.last = Called("invalidate_pattern", pattern)]
    /\ UNCHANGED <<batch, data_retry, dm>>
    /\ UNCHANGED <<varsTools, varsStore, varsExt>>

\* MemoryCache.__init__
InitCache ==
    /\ InitQuiet
    /\ batch = NotUsed /\ data_retry = NotUsed /\ dm = NotUsed
    /\ \E max_size \in 0..MaxSize :
          cache = [entries |-> <<>>, max_size |-> max_size,
                   hit_count |-> 0, miss_count |-> 0, last |-> Called("__init__", <<>>)]

NextCache ==
    \/ \E k \in CacheKeys, passed \in BOOLEAN : CacheGet(k, passed)
    \/ \E k \in CacheKeys, v \in CacheValues, ttl \in BOOLEAN : CacheSet(k, v, ttl)
    \/ \E k \in CacheKeys : CacheDelete(k)
    \/ CacheClear
    \/ \E pattern \in CachePatterns : InvalidatePattern(pattern)

SpecCache == InitCache /\ [][NextCache]_vars

(***************************************************************************)
(* The RetryHandler of the data layer                                      *)
(***************************************************************************)
\* RetryHandler.__init__: delays in hundredths of a second. base_delay = 1.0
\* and exponential_base = 2.0 are the defaults; max_delay is 1.0, 3.0 or the
\* default 60.0.
DataRetryConfigs ==
    [max_retries : 0..MaxDataRetries, base_delay : {100}, max_delay : {100, 300, 6000},
     exponential_base : {2}]

\* the values of random.random() the model draws: 0.0, 0.1, ... 0.9
RandomTenths == 0..9

\* b ** n
RECURSIVE Pow(_, _)
Pow(b, n) == IF n = 0 THEN 1 ELSE b * Pow(b, n - 1)

\* calculate_delay: the capped exponential delay plus a jitter of
\* delay * 0.1 * random.random()
CalculateDelay(h, attempt, random) ==
    LET delay == Min(h.base_delay * Pow(h.exponential_base, attempt), h.max_delay)
        jitter == (delay * random) \div 100
    IN  delay + jitter

\* variant of RetriesLeft: the last attempt is followed by one more
RetriesLeftInclusive(h, attempt) == attempt <= h.max_retries

\* attempt < self.max_retries in the except branch
RetriesLeft(h, attempt) == attempt < h.max_retries

\* what a call of the operation does
DataOutcomes == [kind : {"returned"}, value : {"v"}] \cup [kind : {"raised"}, value : {"e1", "e2"}]

\* one pass of the loop of execute_with_retry: the operation is called; its
\* value is returned, or its exception is kept and the handler sleeps for
\* calculate_delay(attempt), or raises it when no retry is left
DataExecute(outcome, random) ==
    /\ data_retry.pc = "calling"
    /\ LET h == data_retry.handler
           called == [data_retry EXCEPT !.calls = Append(@, outcome)]
       IN  IF outcome.kind = "returned"
           THEN data_retry' = [called EXCEPT !.pc = "returned", !.result = outcome.value]
           ELSE IF RetriesLeft(h, data_retry.attempt)
           THEN data_retry' = [called EXCEPT
                    !.pc = "sleeping", !.last_exception = outcome.value,
                    !.delay = CalculateDelay(h, data_retry.attempt, random)]
           ELSE data_retry' = [called EXCEPT
                    !.pc = "raised", !.last_exception = outcome.value,
                    !.result = outcome.value]
    /\ UNCHANGED <<batch, cache, dm>>
    /\ UNCHANGED <<varsTools, varsStore, varsExt>>

\* asyncio.sleep(delay) is over: the next value of range(max_retries + 1),
\* or the raise last_exception that follows the loop
DataSleepOver ==
    /\ data_retry.pc = "sleeping"
    /\ IF data_retry.attempt < data_retry.handler.max_retries
       THEN data_retry' = [data_retry EXCEPT !.pc = "calling", !.attempt = @ + 1]
       ELSE data_retry' = [data_retry EXCEPT !.pc = "raised",
                                             !.result = data_retry.last_exception]
    /\ UNCHANGED <<batch, cache, dm>>
    /\ UNCHANGED <<varsTools, varsStore, varsExt>>

\* execute_with_retry was called on a handler
InitDataRetry ==
    /\ InitQuiet
    /\ batch = NotUsed /\ cache = NotUsed /\ dm = NotUsed
    /\ \E h \in DataRetryConfigs :
          data_retry = [pc |-> "calling", handler |-> h, attempt |-> 0, calls |-> <<>>,
                        last_exception |-> "None", delay |-> 0, result |-> "None"]

NextDataRetry ==
    \/ \E outcome \in DataOutcomes, random \in RandomTenths : DataExecute(outcome, random)
    \/ DataSleepOver

SpecDataRetry == InitDataRetry /\ [][NextDataRetry]_vars

(***************************************************************************)
(* DataManager: sessions and their results                                 *)
(***************************************************************************)
\* the tables of a DataManager right after _init_db; clock stands for
\* datetime.now(), which the model advances with every saved session
EmptyDm ==
    [sessions |-> {}, tool_results |-> {}, analysis_results |-> {},
     seq |-> [sessions |-> 0, tool_results |-> 0, analysis_results |-> 0],
     clock |-> 0, last |-> [op |-> "__enter__", arg |-> 0]]

\* DataManager.save_session: INSERT and commit
DmSaveSession ==
    /\ dm.seq.sessions < MaxSessions
    /\ dm' = [dm EXCEPT
            !.sessions = @ \cup {[id |-> dm.seq.sessions + 1, timestamp |-> dm.clock + 1]},
            !.seq.sessions = @ + 1,
            !.clock = @ + 1,
            !.last = [op |-> "save_session", arg |-> dm.seq.sessions + 1]]
    /\ UNCHANGED <<batch, cache, data_retry>>
    /\ UNCHANGED <<varsTools, varsStore, varsExt>>

\* DataManager.save_tool_result for a stored session
DmSaveToolResult(sid) ==
    /\ dm.seq.tool_results < MaxDmRows
    /\ \E s \in dm.sessions : s.id = sid
    /\ dm' = [dm EXCEPT
            !.tool_results = @ \cup {[id |-> dm.seq.tool_results + 1, session_id |-> sid]},
            !.seq.tool_results = @ + 1,
            !.last = [op |-> "save_tool_result", arg |-> sid]]
    /\ UNCHANGED <<batch, cache, data_retry>>
    /\ UNCHANGED <<varsTools, varsStore, varsExt>>

\* DataManager.save_analysis_result for a stored session
DmSaveAnalysisResult(sid) ==
    /\ dm.seq.analysis_results < MaxDmRows
    /\ \E s \in dm.sessions : s.id = sid
    /\ dm' = [dm EXCEPT
            !.analysis_results = @ \cup {[id |-> dm.seq.analysis_results + 1,
                                          session_id |-> sid]},
            !.seq.analysis_results = @ + 1,
            !.last = [op |-> "save_analysis_result", arg |-> sid]]
    /\ UNCHANGED <<batch, cache, data_retry>>
    /\ UNCHANGED <<varsTools, varsStore, varsExt>>

\* SELECT id FROM sessions ORDER BY timestamp DESC LIMIT keep_count
KeepIds(sessions, keep_count) ==
    {s.id : s \in {s \in sessions :
        Cardinality({q \in sessions : q.timestamp > s.timestamp}) < keep_count}}

\* clear_old_sessions on the tables: nothing is deleted when keep_ids is empty
ClearOldSessionsOf(d, keep_count) ==
    LET keep_ids == KeepIds(d.sessions, keep_count)
    IN  IF keep_ids # {}
        THEN [d EXCEPT !.analysis_results = {r \in @ : r.session_id \in keep_ids},
                       !.tool_results = {r \in @ : r.session_id \in keep_ids},
                       !.sessions = {s \in @ : s.id \in keep_ids}]
        ELSE d

\* DataManager.clear_old_sessions
ClearOldSessions(keep_count) ==
    /\ dm' = [ClearOldSessionsOf(dm, keep_count) EXCEPT
                !.last = [op |-> "clear_old_sessions", arg |-> keep_count]]
    /\ UNCHANGED <<batch, cache, data_retry>>
    /\ UNCHANGED <<varsTools, varsStore, varsExt>>

InitDm ==
    /\ InitQuiet
    /\ batch = NotUsed /\ cache = NotUsed /\ data_retry = NotUsed
    /\ dm = EmptyDm

NextDm ==
    \/ DmSaveSession
    \/ \E sid \in 1..MaxSessions : DmSaveToolResult(sid)
    \/ \E sid \in 1..MaxSessions : DmSaveAnalysisResult(sid)
    \/ \E keep_count \in 0..MaxSessions : ClearOldSessions(keep_count)

SpecDm == InitDm /\ [][NextDm]_vars

(***************************************************************************)
(* ToolSelector: the metrics on their own                                  *)
(***************************************************************************)
\* record_tool_execution called for a tool name
RecordToolExecutionCall(name, success) ==
    /\ name \in DOMAIN metrics => metrics[name].total_calls < MaxCalls
    /\ metrics' = RecordToolExecution(metrics, name, success)
    /\ UNCHANGED <<config, tool_names, batchPc, tasks, current_attempt, results>>
    /\ UNCHANGED <<varsStore, varsExt, varsAux>>

\* reset_metrics(tool_name); "" stands for no name
ResetMetrics(name) ==
    /\ metrics' = ResetMetricsOf(metrics, name)
    /\ UNCHANGED <<config, tool_names, batchPc, tasks, current_attempt, results>>
    /\ UNCHANGED <<varsStore, varsExt, varsAux>>

InitSelector ==
    /\ InitAux
    /\ InitIdle
    /\ InitConnection
    /\ config = DefaultConfig
    /\ tool_names = <<>>
    /\ InitHandler

NextSelector ==
    \/ \E name \in AllNames, success \in BOOLEAN : RecordToolExecutionCall(name, success)
    \/ \E name \in AllNames \cup {""} : ResetMetrics(name)

SpecSelector == InitSelector /\ [][NextSelector]_vars

\* a ToolManager about to run a batch
InitTools ==
    /\ InitAux
    /\ InitIdle
    /\ config \in Configs(MaxBatchRetries, MaxParallelBound)
    /\ tool_names \in SeqsUpTo(AllNames, MaxRequested)
    /\ InitHandler
    /\ InitConnection

\* a ToolManager about to run one tool (run_tool called by execute_single_query)
InitSingle ==
    /\ InitAux
    /\ InitIdle
    /\ config \in Configs(MaxRetriesBound, 1)
    /\ tool_names \in {<<n>> : n \in AllNames}
    /\ InitHandler
    /\ InitConnection

\* run_tool called on its own: one coroutine, no gather
RunTool ==
    /\ batchPc = "idle"
    /\ tasks' = <<NewTask(tool_names[1])>>
    /\ batchPc' = "single"
    /\ UNCHANGED <<config, tool_names, current_attempt, results, metrics>>
    /\ UNCHANGED <<varsStore, varsExt, varsAux>>

\* run_multiple_tools up to the await of gather
RunMultipleTools ==
    /\ batchPc = "idle"
    /\ tasks' = [i \in 1..Len(BatchNames) |-> NewTask(BatchNames[i])]
    /\ batchPc' = IF Len(BatchNames) = 0 THEN "returned" ELSE "gathering"
    /\ UNCHANGED <<config, tool_names, current_attempt, results, metrics>>
    /\ UNCHANGED <<varsStore, varsExt, varsAux>>

(***************************************************************************)
(* RetryHandler (tools)                                                    *)
(***************************************************************************)
\* (variant of LoopContinues: the loop stops one attempt early)
LoopStopsEarly(ca) == ca < config.max_retries - 1

\* the loop condition of execute_with_retry
LoopContinues(ca) == ca < config.max_retries

\* (variant of Exhausted: the last attempt is not recognised as the last)
ExhaustedLate(ca) == ca > config.max_retries

\* the check after a failed attempt that ends the loop
Exhausted(ca) == ca >= config.max_retries

\* (variant of RetryEnabled: the enabled flag is not read)
RetryAlwaysEnabled == TRUE

\* `if not self.config.enabled` at the head of execute_with_retry
RetryEnabled == config.enabled

\* (variant of RetryOn: the two flags are read for the wrong failure class)
RetryOnSwapped(outcome) ==
    IF outcome = "timeout" THEN config.retry_on_error ELSE config.retry_on_timeout

\* retry_on_timeout / retry_on_error: whether a failure of this class is retried
RetryOn(outcome) ==
    IF outcome = "timeout" THEN config.retry_on_timeout ELSE config.retry_on_error

\* the text of last_error
LastError(outcome) == IF outcome = "timeout" THEN "timeout_error" ELSE "exec_error"

\* execute_with_retry returned RetryResult(success=False, attempts=current_attempt,
\* error=last_error); run_tool records the failure and builds the failed ToolResult
\* with error_message = retry_result.error or "failed".
RetryFailure(t, ca) ==
    [task |-> [t EXCEPT !.pc = "done", !.attempts = ca, !.retry_result = "failure",
                        !.result = ToolResult(t.name, FALSE, "",
                            IF t.last_error = "none" THEN "failed" ELSE t.last_error)],
     ca |-> ca, record |-> "failure"]

\* execute_with_retry returned RetryResult(success=True, attempts, value);
\* run_tool records value.success and returns value.
RetrySuccess(t, ca, attempts, value) ==
    [task |-> [t EXCEPT !.pc = "done", !.attempts = attempts, !.retry_result = "success",
                        !.result = value],
     ca |-> ca, record |-> IF value.success THEN "success" ELSE "failure"]

\* the head of the while loop: one more call of the operation, or the end of the loop
LoopHead(t, ca) ==
    IF LoopContinues(ca)
    THEN [task |-> [t EXCEPT !.pc = "running", !.calls = @ + 1], ca |-> ca + 1, record |-> "none"]
    ELSE RetryFailure(t, ca)

\* (variant of ToolNotFound: the rejected call is recorded as a failed execution)
ToolNotFoundRecorded(t, ca) ==
    [task |-> [t EXCEPT !.pc = "done",
                        !.result = ToolResult(t.name, FALSE, "", "not_enabled")],
     ca |-> ca, record |-> "failure"]

\* run_tool: no enabled tool has this name; the failed ToolResult is returned
\* before the retry handler or the tool selector is used
ToolNotFound(t, ca) ==
    [task |-> [t EXCEPT !.pc = "done",
                        !.result = ToolResult(t.name, FALSE, "", "not_enabled")],
     ca |-> ca, record |-> "none"]

\* the effect of one step of the coroutine of task i on the shared state
Apply(i, r) ==
    /\ tasks' = [tasks EXCEPT ![i] = r.task]
    /\ current_attempt' = r.ca
    /\ metrics' = IF r.record = "none" THEN metrics
                  ELSE RecordToolExecution(metrics, r.task.name, r.record = "success")
    /\ batchPc' = GatherAfter(tasks')
    /\ results' = GatherResults(tasks')
    /\ UNCHANGED <<config, tool_names>>
    /\ UNCHANGED <<varsStore, varsExt, varsAux>>

\* run_tool from its start to the first suspension (the child process is started).
\* gather schedules the tasks in list order, and each runs to its first
\* suspension before the next one starts.
StartTask(i) ==
    /\ i \in DOMAIN tasks
    /\ tasks[i].pc = "created"
    /\ \A j \in 1..(i - 1) : tasks[j].pc # "created"
    /\ LET t == tasks[i] IN
       IF t.name \notin EnabledNames
       THEN Apply(i, ToolNotFound(t, current_attempt))
       ELSE IF ~RetryEnabled
       THEN Apply(i, [task |-> [t EXCEPT !.pc = "running", !.calls = @ + 1],
                      ca |-> 0, record |-> "none"])
       ELSE Apply(i, LoopHead(t, 0))

AllStarted == \A j \in DOMAIN tasks : tasks[j].pc # "created"

\* the child process of task i ends with `outcome`; execute_with_retry and run_tool
\* continue to the next suspension or to the end. `retry` is the answer of the
\* user to _ask_user_retry (read only when auto_retry is off; input() blocks
\* the event loop, so the question and the next call are one step). asked and
\* continues count the questions put to the user and the answers "yes".
CompleteAttempt(i, outcome, retry) ==
    /\ i \in DOMAIN tasks
    /\ tasks[i].pc = "running"
    /\ AllStarted
    /\ LET t  == [tasks[i] EXCEPT !.last_outcome = outcome]
           ca == current_attempt
           te == [t EXCEPT !.last_error = LastError(outcome)]
           ta == [te EXCEPT !.asked = @ + 1]
       IN
       IF ~RetryEnabled
       THEN IF Raises(outcome)
            THEN Apply(i, [task |-> [t EXCEPT !.pc = "raised"], ca |-> ca, record |-> "none"])
            ELSE Apply(i, RetrySuccess(t, ca, 1, ExecuteToolInternal(t.name, outcome)))
       ELSE IF ~Raises(outcome)
       THEN Apply(i, RetrySuccess(t, ca, ca, ExecuteToolInternal(t.name, outcome)))
       ELSE IF ~RetryOn(outcome) \/ Exhausted(ca)
       THEN Apply(i, RetryFailure(te, ca))
       ELSE IF config.auto_retry
       THEN Apply(i, [task |-> [te EXCEPT !.pc = "sleeping"], ca |-> ca, record |-> "none"])
       ELSE IF retry
       THEN Apply(i, LoopHead([ta EXCEPT !.continues = @ + 1], ca))
       ELSE Apply(i, RetryFailure(ta, ca))

\* asyncio.sleep(delay) of task i is over: back to the head of the loop
Wake(i) ==
    /\ i \in DOMAIN tasks
    /\ tasks[i].pc = "sleeping"
    /\ Apply(i, LoopHead(tasks[i], current_attempt))

NextTools ==
    \/ RunMultipleTools
    \/ \E i \in DOMAIN tasks : StartTask(i)
    \/ \E i \in DOMAIN tasks, o \in Outcomes, r \in BOOLEAN : CompleteAttempt(i, o, r)
    \/ \E i \in DOMAIN tasks : Wake(i)

SpecTools == InitTools /\ [][NextTools]_vars

NextSingle ==
    \/ RunTool
    \/ StartTask(1)
    \/ \E o \in Outcomes, r \in BOOLEAN : CompleteAttempt(1, o, r)
    \/ Wake(1)

SpecSingle == InitSingle /\ [][NextSingle]_vars

(***************************************************************************)
(* Derived quantities of the batch                                         *)
(***************************************************************************)
Terminal(t) == t.pc \in {"done", "raised"}

InFlight == Cardinality({i \in DOMAIN tasks : tasks[i].pc \in {"running", "sleeping"}})

(***************************************************************************)
(* Derived quantities of the store                                         *)
(***************************************************************************)
\* the writes whose rows a database holds
WritesIn(db) == {r.w : r \in db.tool_results} \cup {r.w : r \in db.analysis_results}

ScopeWrites == {x.w : x \in scope.inserted}

ScopeTables == {x.table : x \in scope.inserted}

\* the tool names run_multiple_tools was asked for (an empty list asks for
\* every enabled tool)
Requested == IF tool_names = <<>> THEN enabled_tools ELSE tool_names

Count(seq, n) == Cardinality({i \in DOMAIN seq : seq[i] = n})

ResultNames == [i \in DOMAIN results |-> results[i].tool_name]

RetryAllOn ==
    /\ config.enabled /\ config.auto_retry
    /\ config.retry_on_timeout /\ config.retry_on_error

(***************************************************************************)
(* Claims about the batch dispatch                                         *)
(***************************************************************************)
\* C1: the list run_multiple_tools returns holds exactly one ToolResult per
\* requested name: the returned names equal the requested names as a multiset,
\* also when more than max_parallel_tools names are requested.
C1_OneResultPerRequested ==
    batchPc = "returned" =>
        \A n \in AllNames : Count(ResultNames, n) = Count(Requested, n)

\* C2: run_multiple_tools comes back to its caller only when every provider
\* has reached a terminal success or failure, and it never ends with an
\* exception because one provider failed or timed out, whatever the retry
\* configuration.
C2_ReturnsAfterAllTerminalWithoutException ==
    /\ batchPc # "raised"
    /\ batchPc = "returned" => \A i \in DOMAIN tasks : tasks[i].pc = "done"

\* C3: run_tool on an enabled provider always ends by returning a ToolResult;
\* a timeout or an execution error is never propagated as an exception, under
\* every retry configuration.
C3_RunToolNeverRaises ==
    \A i \in DOMAIN tasks : tasks[i].name \in EnabledNames => tasks[i].pc # "raised"

\* C4: at every moment of run_multiple_tools the number of provider invocations
\* in flight is at most max_parallel_tools, however many were requested.
C4_InFlightBounded == InFlight <= config.max_parallel_tools

\* C4 witness: more names requested than the limit, and the limit is reached.
C4_Witness ==
    /\ Len(Requested) > config.max_parallel_tools
    /\ InFlight = config.max_parallel_tools
    /\ config.max_parallel_tools >= 2

(***************************************************************************)
(* Claims about one run_tool call                                          *)
(***************************************************************************)
\* C8: with retry enabled, auto_retry on and both failure classes retryable,
\* execute_with_retry running alone calls the operation at most max_retries
\* times; an operation that raises k < max_retries times and then returns
\* gives success with attempts = k + 1; an operation that always raises gives a
\* failure with attempts = max_retries that carries the last error.
C8_AttemptsCounted ==
    RetryAllOn =>
        \A i \in DOMAIN tasks :
            LET t == tasks[i] IN
            /\ t.calls <= config.max_retries
            /\ t.retry_result = "success" => t.attempts = t.calls
            /\ t.retry_result = "failure" =>
                  /\ t.attempts = config.max_retries
                  /\ t.calls = config.max_retries
                  /\ t.calls > 0 => t.result.error_message = LastError(t.last_outcome)

\* C8 witness: max_retries = 3, two attempts raised and the third returned.
C8_Witness ==
    /\ RetryAllOn /\ config.max_retries = 3
    /\ Len(tasks) = 1
    /\ tasks[1].retry_result = "success" /\ tasks[1].calls = 3 /\ tasks[1].attempts = 3
    /\ tasks[1].last_error # "none"

\* C9: with retry enabled (automatic, both failure classes retryable), a
\* provider whose invocation failed - timeout, start error or non-zero exit
\* code - is invoked again until an invocation succeeds or max_retries
\* invocations were made.
C9_EveryFailureIsRetried ==
    RetryAllOn =>
        \A i \in DOMAIN tasks :
            (tasks[i].pc = "done" /\ tasks[i].name \in EnabledNames) =>
                \/ tasks[i].last_outcome \in {"ok", "empty"}
                \/ tasks[i].calls >= config.max_retries

\* C10: every ToolResult run_tool returns has success => answer non-empty and
\* error empty, and not success => error non-empty and answer empty.
C10_ResultWellFormed ==
    \A i \in DOMAIN tasks :
        tasks[i].pc = "done" =>
            LET r == tasks[i].result IN
            /\ r.success => (r.answer # "" /\ r.error_message = "")
            /\ ~r.success => (r.error_message # "" /\ r.answer = "")

(***************************************************************************)
(* Claims about the persistence layer                                      *)
(***************************************************************************)
\* C5: when an exception leaves a begin_transaction scope in which rows were
\* inserted and no commit() was issued yet (tool results inserted, analysis
\* result not yet), the scope is rolled back: no row inserted in the scope is
\* visible on the connection or durable, and the exception reaches the caller.
C5_ExceptionRollsBack ==
    (uow.pc = "exited" /\ uow.exc /\ ~uow.committed) =>
        /\ ScopeWrites \cap WritesIn(conn.work) = {}
        /\ ScopeWrites \cap WritesIn(conn.durable) = {}
        /\ uow.propagated

\* C5 witness: a scope left by an exception after a batch of tool results was
\* inserted and before any analysis result was.
C5_Witness ==
    /\ uow.pc = "exited" /\ uow.exc /\ ~uow.committed /\ uow.propagated
    /\ ScopeTables = {"tool_results"}
    /\ Cardinality(ScopeWrites) >= 2
    /\ conn.work.tool_results = {}

\* C6: once a scope has exited, either every row inserted in it is durable or
\* none is, whatever the order of writes, commit(), rollback() and exceptions
\* inside the scope.
C6_AllOrNothing ==
    uow.pc = "exited" =>
        \/ ScopeWrites \subseteq WritesIn(conn.durable)
        \/ ScopeWrites \cap WritesIn(conn.durable) = {}

\* C7: no row of tool_results, staged or durable, has success = true with an
\* empty answer or success = false with an empty error message: an entity that
\* fails validation is never inserted or written by an update, at whatever
\* position of a batch it stands.
C7_NoInvalidRow ==
    \A r \in conn.work.tool_results \cup conn.durable.tool_results :
        /\ r.success => r.answer # ""
        /\ ~r.success => r.error_message # ""
        /\ r.tool_name # "" /\ r.session_id > 0 /\ r.execution_time >= 0

\* C7 witness: a batch call raised at an entity after its first one; the
\* entities before it are staged, the rejected one is not.
C7_Witness ==
    /\ scope.last = "raised_after_rows"
    /\ conn.work.tool_results # {}
    /\ conn.in_txn

(***************************************************************************)
(* Claims about run_tool and the retry policy                              *)
(***************************************************************************)
\* C11: run_tool with a name that is not an enabled tool returns a failed
\* ToolResult in its first step: no child process is started, the retry
\* handler is not used and no metrics change.
C11_UnknownToolRejected ==
    \A i \in DOMAIN tasks :
        tasks[i].name \notin EnabledNames =>
            /\ tasks[i].pc \in {"created", "done"}
            /\ tasks[i].calls = 0 /\ tasks[i].attempts = 0
            /\ tasks[i].retry_result = "none" /\ tasks[i].asked = 0
            /\ current_attempt = 0
            /\ metrics = NoMetrics
            /\ tasks[i].pc = "done" =>
                  /\ ~tasks[i].result.success
                  /\ tasks[i].result.tool_name = tasks[i].name
                  /\ tasks[i].result.error_message # ""

\* C11 witness: the call for the tool that is not enabled has returned.
C11_Witness ==
    /\ Len(tasks) = 1 /\ tasks[1].name = "x" /\ tasks[1].pc = "done"
    /\ ~tasks[1].result.success

\* C12: with enabled = false execute_with_retry calls the operation exactly
\* once, whatever that call does, and reports a call that returned with
\* attempts = 1.
C12_DisabledRunsOnce ==
    ~config.enabled =>
        \A i \in DOMAIN tasks :
            /\ tasks[i].calls <= 1
            /\ tasks[i].pc # "sleeping" /\ tasks[i].asked = 0
            /\ (tasks[i].name \in EnabledNames /\ Terminal(tasks[i])) => tasks[i].calls = 1
            /\ tasks[i].retry_result = "success" => tasks[i].attempts = 1
            /\ tasks[i].retry_result # "failure"

\* C12 witness: retry disabled, the one call returned and attempts = 1.
C12_Witness ==
    /\ ~config.enabled /\ Len(tasks) = 1
    /\ tasks[1].pc = "done" /\ tasks[1].calls = 1 /\ tasks[1].attempts = 1
    /\ tasks[1].retry_result = "success"

\* C13: with retry enabled, a timeout is never followed by another attempt
\* when retry_on_timeout is false, another exception never when retry_on_error
\* is false, each flag whatever the other is; the failure returned reports
\* attempts = the number of calls made.
C13_ExcludedClassEndsRetry ==
    config.enabled =>
        \A i \in DOMAIN tasks :
            LET t == tasks[i] IN
            /\ (t.last_outcome = "timeout" /\ ~config.retry_on_timeout) =>
                  (t.pc = "done" /\ t.retry_result = "failure" /\ t.attempts = t.calls)
            /\ (t.last_outcome = "error" /\ ~config.retry_on_error) =>
                  (t.pc = "done" /\ t.retry_result = "failure" /\ t.attempts = t.calls)

\* C13 witness: errors are retried and timeouts are not; an error was retried
\* and the timeout of the second call ended the execution with attempts = 2.
C13_Witness ==
    /\ config.enabled /\ ~config.retry_on_timeout /\ config.retry_on_error
    /\ config.max_retries = 3 /\ Len(tasks) = 1
    /\ tasks[1].pc = "done" /\ tasks[1].last_outcome = "timeout"
    /\ tasks[1].calls = 2 /\ tasks[1].attempts = 2

\* C14: with enabled = true and auto_retry = false, every call after the first
\* follows exactly one "continue" answer given for the failure before it; an
\* "abort" answer ends the execution with a failure and no further call; and
\* no question is asked after the call numbered max_retries.
C14_OneDecisionPerRetry ==
    (config.enabled /\ ~config.auto_retry) =>
        \A i \in DOMAIN tasks :
            LET t == tasks[i] IN
            /\ t.pc # "sleeping"
            /\ t.calls >= 1 => t.calls = t.continues + 1
            /\ t.asked <= t.continues + 1
            /\ t.asked > t.continues => (t.pc = "done" /\ t.retry_result = "failure")
            /\ t.asked < config.max_retries \/ t.asked = 0

\* C14 witness: two failures were each answered with "continue", the third
\* call failed as well and, being the last one allowed, no question followed.
C14_Witness ==
    /\ config.enabled /\ ~config.auto_retry /\ config.max_retries = 3
    /\ Len(tasks) = 1 /\ tasks[1].pc = "done" /\ tasks[1].retry_result = "failure"
    /\ tasks[1].calls = 3 /\ tasks[1].asked = 2 /\ tasks[1].continues = 2

(***************************************************************************)
(* Claims about the session data                                           *)
(***************************************************************************)
HasToolResults(db, sid) == \E r \in db.tool_results : r.session_id = sid

HasAnalysis(db, sid) == \E r \in db.analysis_results : r.session_id = sid

\* C15: the provider results, the consensus analysis and the completion of a
\* session become durable together: once a step of the session has failed,
\* and no other session write was made, the durable store holds either all
\* three for session 1 or none of them.
C15_SessionAllOrNothing ==
    (flow.pc = "failed" /\ flow.writes = 0) =>
        /\ HasToolResults(conn.durable, 1) <=> HasAnalysis(conn.durable, 1)
        /\ HasAnalysis(conn.durable, 1) <=> 1 \in conn.durable.completed

\* C16: no session write takes a durably completed session back to
\* completed = false.
C16_CompletedNeverReverts ==
    [][conn.durable.completed \subseteq conn'.durable.completed]_vars

\* C17: from empty metrics, after any record_tool_execution and reset_metrics
\* calls, every stored record has successful_calls + failed_calls =
\* total_calls, total_calls > 0 and success_rate = successful_calls / total_calls.
C17_MetricsConsistent ==
    \A n \in DOMAIN metrics :
        /\ metrics[n].successful_calls + metrics[n].failed_calls = metrics[n].total_calls
        /\ metrics[n].total_calls > 0
        /\ metrics[n].success_rate.den > 0
        /\ metrics[n].success_rate.num * metrics[n].total_calls
               = metrics[n].successful_calls * metrics[n].success_rate.den

\* C17 witness: two successes and a failure are recorded for "a" (rate 2/3)
\* and the record of "x" is gone.
C17_Witness ==
    /\ DOMAIN metrics = {"a"}
    /\ metrics["a"].total_calls = 3 /\ metrics["a"].successful_calls = 2
    /\ metrics["a"].failed_calls = 1
    /\ metrics["a"].success_rate = [num |-> 2, den |-> 3]

(***************************************************************************)
(* Claims about the analyzers                                              *)
(***************************************************************************)
\* C18: analyze_consensus, in both analyzers, called with fewer than two
\* successful results returns without raising, with a similarity matrix of at
\* most one row and a score map of at most one entry.
C18_DegenerateAnalysis ==
    (/\ analysis.pc = "done"
     /\ analysis.op \in {"analyze_consensus", "analyze_consensus_v2"}
     /\ SuccessfulCount(flow.results) < 2) =>
        /\ ~analysis.result.raised
        /\ Len(analysis.result.similarity_matrix) <= 1
        /\ Cardinality(DOMAIN analysis.result.consensus_scores) <= 1

\* C19: the analysis ConsensusAnalyzer.analyze_consensus returns has one matrix
\* row and column and one score entry for each successful result, and no
\* score entry for a tool without a successful result.
C19_OverSuccessfulResults ==
    (/\ analysis.pc = "done"
     /\ analysis.op = "analyze_consensus"
     /\ ~analysis.result.raised) =>
        LET n == SuccessfulCount(flow.results)
            m == analysis.result.similarity_matrix
            scores == analysis.result.consensus_scores
        IN /\ Len(m) = n
           /\ \A i \in DOMAIN m : Len(m[i]) = n
           /\ Cardinality(DOMAIN scores) = n
           /\ DOMAIN scores \subseteq
                 {flow.results[i].tool_name : i \in {j \in DOMAIN flow.results : flow.results[j].success}}

\* C20: whatever the generative model does, _extract_key_points and
\* _identify_differences return a list; for a response that is empty, white
\* space only or without JSON, the key points are those of the word-frequency
\* fallback and the differences are the empty list.
C20_ExtractionReturnsList ==
    (/\ analysis.pc = "done"
     /\ analysis.op \in {"_extract_key_points", "_identify_differences"}) =>
        /\ analysis.result.type = "list"
        /\ (\A k \in DOMAIN analysis.llm.text : analysis.llm.text[k] \notin {"[]", "{}"}) =>
              /\ analysis.result.origin = "fallback"
              /\ analysis.result.items =
                    IF analysis.op = "_extract_key_points"
                    THEN SimpleKeyPointExtraction(flow.results)
                    ELSE <<>>

\* C21: when several analysis results are stored for a session, fetching the
\* analysis by session id returns the one stored last (the highest id).
C21_LatestAnalysisReturned ==
    \A sid \in conn.work.sessions :
        LET rows == {r \in conn.work.analysis_results : r.session_id = sid}
        IN  rows # {} =>
                \A q \in rows : q.id <= GetBySessionId(conn.work, sid).id

\* C22: execute_batch_queries returns one BatchQueryResult per question, in
\* the order of the questions; a question whose execution raised has
\* success = false and the message of its own exception, and every other
\* question has the outcome of its own execution.
C22_OneResultPerQuestion ==
    batch.pc = "returned" =>
        /\ Len(batch.results) = Len(batch.questions)
        /\ \A i \in 1..Len(batch.questions) :
              LET r == batch.results[i]
                  o == batch.tasks[i].outcome
              IN  /\ r.question = batch.questions[i]
                  /\ o.kind = "raised" =>
                        ~r.success /\ r.error_message = o.message
                  /\ o.kind = "completed" =>
                        r.success /\ r.error_message = "None"

\* a batch returned in which one question raised and another one completed
C22_Witness ==
    /\ batch.pc = "returned"
    /\ \E i, j \in 1..Len(batch.questions) :
          /\ i < j
          /\ batch.tasks[i].outcome.kind = "completed"
          /\ batch.tasks[j].outcome.kind = "raised"
          /\ batch.results[j].error_message = "e2"

\* C23: whatever calls of set, get, delete, clear and invalidate_pattern were
\* made, a MemoryCache holds at most max_size entries.
C23_CacheSizeBounded ==
    cache # NotUsed => Len(cache.entries) <= cache.max_size

\* set was called on a cache at its size limit and an entry was removed: the
\* cache is full and the key just set is not in it
C23_Witness ==
    /\ cache # NotUsed
    /\ cache.max_size >= 1
    /\ cache.last.op = "set"
    /\ Len(cache.entries) = cache.max_size
    /\ KeyIndex(cache.entries, cache.last.key) = 0

\* C28: with max_size >= 1, get(k) right after set(k, v) without a TTL returns
\* v, whatever the cache held before.
C28_GetAfterSet ==
    (cache # NotUsed /\ cache.max_size >= 1 /\ cache.last.op = "set" /\ ~cache.last.ttl) =>
        \A passed \in BOOLEAN :
            GetValue(cache, cache.last.key, passed) = cache.last.value

\* C24: in a batch of run_multiple_tools, with retry enabled (automatic, both
\* failure classes retryable), a provider all of whose invocations failed was
\* invoked exactly max_retries times, and the attempts reported for a
\* provider are the number of its own invocations, however the attempts of
\* the providers interleave.
C24_IndependentRetryBudgets ==
    (RetryAllOn /\ Len(tasks) > 1) =>
        \A i \in DOMAIN tasks :
            /\ tasks[i].retry_result = "failure" => tasks[i].calls = config.max_retries
            /\ tasks[i].retry_result # "none" => tasks[i].attempts = tasks[i].calls

\* C25: the committed and rolled-back flags of a unit of work are never both
\* true; once it was rolled back no step of its scope, a commit() included,
\* makes anything durable; once it was committed no step of its scope, a
\* rollback() included, discards a written row; and a scope that ends without
\* an exception and without either call is committed by its exit: what it
\* wrote is durable and no transaction stays open.
C25_UnitOfWorkStateMachine ==
    [][/\ ~(uow'.committed /\ uow'.rolled_back)
       /\ (uow.pc = "active" /\ uow.rolled_back) => conn'.durable = conn.durable
       /\ (uow.pc = "active" /\ uow.committed) =>
              WritesIn(conn.work) \subseteq WritesIn(conn'.work)
       /\ (/\ uow.pc = "active" /\ uow'.pc = "exited" /\ ~uow'.exc
           /\ ~uow.committed /\ ~uow.rolled_back) =>
              /\ uow'.committed /\ ~uow'.rolled_back
              /\ conn'.durable = conn.work /\ conn'.work = conn.work
              /\ ~conn'.in_txn]_vars

\* a unit of work that was rolled back and then wrote a row: a commit() that
\* took effect now would make the row durable
C25_Witness ==
    /\ uow.pc = "active" /\ uow.rolled_back
    /\ conn.in_txn
    /\ WritesIn(conn.work) # WritesIn(conn.durable)

\* C26: the data-layer execute_with_retry calls the operation at most
\* max_retries + 1 times; it returns the value of the first call that returns
\* and makes no call after it; when every call raises it raises the exception
\* of the last call, after max_retries + 1 calls.
C26_DataRetryBounded ==
    data_retry # NotUsed =>
        LET n == Len(data_retry.calls)
            h == data_retry.handler
        IN  /\ n <= h.max_retries + 1
            /\ \A i \in 1..(n - 1) : data_retry.calls[i].kind = "raised"
            /\ data_retry.pc = "returned" =>
                  /\ data_retry.calls[n].kind = "returned"
                  /\ data_retry.result = data_retry.calls[n].value
            /\ data_retry.pc = "raised" =>
                  /\ n = h.max_retries + 1
                  /\ data_retry.calls[n].kind = "raised"
                  /\ data_retry.result = data_retry.calls[n].value
            /\ data_retry.pc \in {"calling", "sleeping"} =>
                  n < h.max_retries + 1

\* every call of the operation raised and the last exception was raised to
\* the caller after three calls
C26_Witness ==
    /\ data_retry # NotUsed
    /\ data_retry.pc = "raised"
    /\ data_retry.handler.max_retries = 2
    /\ Len(data_retry.calls) = 3
    /\ data_retry.calls[1].value = "e1" /\ data_retry.result = "e2"

\* C27: the delay calculate_delay returns never exceeds max_delay, for every
\* attempt and every value of the jitter.
C27_DelayCapped ==
    (data_retry # NotUsed /\ data_retry.pc = "sleeping") =>
        data_retry.delay <= data_retry.handler.max_delay

\* C29: after clear_old_sessions(keep_count), keep_count >= 0, at most
\* keep_count sessions remain, they are the ones created last, and no tool
\* result or analysis result remains for a removed session.
C29_OldSessionsCleared ==
    (dm # NotUsed /\ dm.last.op = "clear_old_sessions") =>
        LET ids == {s.id : s \in dm.sessions}
        IN  /\ Cardinality(dm.sessions) <= dm.last.arg
            /\ \A id \in ids : id > dm.seq.sessions - dm.last.arg
            /\ \A r \in dm.tool_results \cup dm.analysis_results : r.session_id \in ids

\* C30: ConsensusAnalyzer.analyze_consensus raises ValueError when none of the
\* tool results of the session is successful, and then no analysis result is
\* stored for the session.
C30_NoSuccessRaises ==
    (/\ analysis.pc = "done"
     /\ analysis.op = "analyze_consensus"
     /\ \A i \in DOMAIN flow.results : ~flow.results[i].success) =>
        /\ analysis.result.raised
        /\ analysis.result.error = "ValueError"
        /\ ~HasAnalysis(conn.work, 1)
        /\ ~HasAnalysis(conn.durable, 1)

\* analyze_consensus was called with two failed results that carry an answer
C30_Witness ==
    /\ analysis.pc = "done"
    /\ analysis.op = "analyze_consensus"
    /\ Len(flow.results) = 2
    /\ \A i \in DOMAIN flow.results :
          ~flow.results[i].success /\ flow.results[i].answer = "alpha"
    /\ analysis.result.raised

====
